---- MODULE Spec2Model ----
(***************************************************************************)
(* Model of the task service of the todo application                       *)
(* (app/task_service.py over the Task table of app/models.py).             *)
(*                                                                         *)
(* Spec     : one caller, every service call is one atomic step.           *)
(* SpecConc : two callers whose update/toggle calls interleave at the      *)
(*            points where each call talks to the database.                *)
(* SpecSchema : a caller that builds TaskCreate / TaskUpdate, with titles  *)
(*            up to and over max_length, before it calls the service.      *)
(* SpecUI   : the handlers of the page of app/todo_app.py.                 *)
(***************************************************************************)
EXTENDS Integers, Sequences, FiniteSets, TLC

VARIABLES
    tasks,      \* rows of table "tasks": records [id, title, completed, created_at]
    id_seq,     \* last primary key handed out by the storage layer
    clock,      \* last reading of datetime.utcnow
    op,         \* the last service call: [name, id, title, completed]
    pre,        \* Optional row: what session.get found at the start of that call
    result,     \* what that call returned
    chain,      \* history of the last two calls: [toggles, orig, fresh]
    created,    \* history: ids in the order create_task returned them
    deleted,    \* history: ids delete_task removed and create_task has not returned since
    sess        \* SpecConc: the open session of each caller

vars == <<tasks, id_seq, clock, op, pre, result, chain, created, deleted, sess>>

----------------------------------------------------------------------------
(* Bounds of the model *)

MaxCreates == 2          \* create_task is called at most this many times

(* Program constants *)

max_length == 200        \* Field(max_length=200) of the title

----------------------------------------------------------------------------
(* Optional[T]: None is the empty tuple, a present value x is <<x>>, so    *)
(* that None differs from the empty title and from False.                  *)

None == <<>>
Some(x) == <<x>>
The(o) == o[1]

(* Titles the caller tries, as sequences of characters: the empty string   *)
(* and a non-empty one.                                                    *)
Titles == {<<>>, <<"a">>}

(* Variant: the limit is off by one. *)
TaskCreate_one_more(title) == Len(title) <= max_length + 1

(* TaskCreate / TaskUpdate construction validates the declared length.     *)
TaskCreate(title) == Len(title) <= max_length

TaskUpdate(title, completed) ==
    IF title = None THEN TRUE ELSE Len(The(title)) <= max_length

Callers == {1, 2}
Ids == 1 .. (MaxCreates + 1)       \* ids a caller asks for; MaxCreates + 1 is never stored
TitlePatches == {None} \cup {Some(t) : t \in Titles}
CompletedPatches == {None, Some(TRUE), Some(FALSE)}

----------------------------------------------------------------------------
(* Storage layer *)

(* Variant: the completed column defaults to True. *)
Task_completed_by_default(id, title, now) ==
    [id |-> id, title |-> title, completed |-> TRUE, created_at |-> now]

(* Task(title=...) once inserted: the id from the storage layer, completed *)
(* False, created_at from the default factory datetime.utcnow.  A reading  *)
(* of the clock is either the previous reading or a later one: nothing in  *)
(* the code makes two readings differ.                                     *)
Task(id, title, now) ==
    [id |-> id, title |-> title, completed |-> FALSE, created_at |-> now]

(* Variant: the key is one more than the largest key now in the table, so  *)
(* the key of a deleted last row is handed out again.                      *)
next_id_after_largest(seq) ==
    IF tasks = {} THEN 1
    ELSE (CHOOSE n \in {t.id : t \in tasks} : \A t \in tasks : t.id <= n) + 1

(* The primary key the storage layer gives to the next inserted row.       *)
next_id(seq) == seq + 1

(* session.get(Task, task_id) *)
session_get(T, task_id) ==
    IF \E t \in T : t.id = task_id
    THEN Some(CHOOSE t \in T : t.id = task_id)
    ELSE None

(* Variant: the UPDATE has no WHERE clause and writes every row. *)
session_commit_every_row(T, loaded, task) ==
    { [column \in DOMAIN t |->
          IF task[column] # loaded[column] THEN task[column] ELSE t[column]] : t \in T }

(* session.add(task); session.commit() of a loaded row: the flush issues   *)
(* UPDATE tasks SET <columns whose value differs from the loaded one>      *)
(* WHERE id = <loaded id>; a column set to the value it was loaded with is *)
(* not part of the statement and keeps what is stored.                     *)
session_commit(T, loaded, task) ==
    { IF t.id = loaded.id
      THEN [column \in DOMAIN t |->
               IF task[column] # loaded[column] THEN task[column] ELSE t[column]]
      ELSE t : t \in T }

(* session.refresh(task): the row as it is stored now *)
session_refresh(T, task) == The(session_get(T, task.id))

(* select(Task).order_by(desc(Task.created_at)): every ordering of the     *)
(* rows with non-increasing created_at; rows with equal created_at come in *)
(* an order the query does not fix.                                        *)
select_order_by_desc_created_at(T) ==
    { s \in [1 .. Cardinality(T) -> T] :
        /\ \A i, j \in 1 .. Cardinality(T) : i # j => s[i] # s[j]
        /\ \A i, j \in 1 .. Cardinality(T) : i < j => s[i].created_at >= s[j].created_at }

----------------------------------------------------------------------------
(* Pure parts of the service *)

(* Variant: a field is taken from the patch when it is truthy. *)
apply_update_if_truthy(task, task_update) ==
    [task EXCEPT !.title = IF task_update.title # None /\ The(task_update.title) # <<>>
                           THEN The(task_update.title) ELSE @,
                 !.completed = IF task_update.completed = Some(TRUE) THEN TRUE ELSE @]

(* Variant: the update also stamps the row with the current time. *)
apply_update_and_stamp(task, task_update) ==
    [task EXCEPT !.title = IF task_update.title # None THEN The(task_update.title) ELSE @,
                 !.completed = IF task_update.completed # None
                               THEN The(task_update.completed) ELSE @,
                 !.created_at = clock]

(* update_task: "Update only provided fields" *)
apply_update(task, task_update) ==
    [task EXCEPT !.title = IF task_update.title # None THEN The(task_update.title) ELSE @,
                 !.completed = IF task_update.completed # None
                               THEN The(task_update.completed) ELSE @]

(* Variant: the call marks the task completed instead of flipping it. *)
apply_toggle_mark_completed(task) == [task EXCEPT !.completed = TRUE]

(* toggle_task_completion: task.completed = not task.completed *)
apply_toggle(task) == [task EXCEPT !.completed = ~ @]

(* sum(1 for task in all_tasks if task.completed) *)
RECURSIVE sum_completed(_)
sum_completed(all_tasks) ==
    IF all_tasks = {} THEN 0
    ELSE LET task == CHOOSE t \in all_tasks : TRUE
         IN  (IF task.completed THEN 1 ELSE 0) + sum_completed(all_tasks \ {task})

(* Variant: pending counts the rows instead of the rows not completed. *)
statistics_pending_is_total(all_tasks) ==
    LET total == Cardinality(all_tasks)
        completed == sum_completed(all_tasks)
    IN  [total |-> total, completed |-> completed, pending |-> total]

statistics(all_tasks) ==
    LET total == Cardinality(all_tasks)
        completed == sum_completed(all_tasks)
    IN  [total |-> total, completed |-> completed, pending |-> total - completed]

(* create_task as a function of the table, the key sequence, the title of  *)
(* the TaskCreate and the clock reading: the table and the key sequence    *)
(* after the call and the returned row.                                    *)
create_outcome(T, seq, title, now) ==
    LET task == Task(next_id(seq), title, now)
        inserted == T \cup {task}
    IN  [tasks |-> inserted, id_seq |-> task.id, result |-> session_refresh(inserted, task)]

(* update_task as a function of the table, the id and the TaskUpdate: the  *)
(* table after the call and the returned value.                            *)
update_outcome(T, task_id, task_update) ==
    LET found == session_get(T, task_id)
    IN  IF found = None
        THEN [tasks |-> T, result |-> None]
        ELSE LET task == apply_update(The(found), task_update)
                 committed == session_commit(T, The(found), task)
             IN  [tasks |-> committed, result |-> Some(session_refresh(committed, task))]

----------------------------------------------------------------------------
(* Bookkeeping shared by the actions *)

Call(name, id, title, completed) ==
    [name |-> name, id |-> id, title |-> title, completed |-> completed]

(* chain.toggles: how many toggle calls in a row (1 or 2, 0 when the last   *)
(* call is not one) have found the row op.id; chain.orig: completed before *)
(* the first of them; chain.fresh: the last call is get_task_by_id for the *)
(* id that the create_task call just before it returned.                   *)
NoChain == [toggles |-> 0, orig |-> None, fresh |-> FALSE]

ToggleChain(task_id, found) ==
    IF found = None THEN NoChain
    ELSE IF op.name = "toggle_task_completion" /\ op.id = task_id /\ chain.toggles = 1
         THEN [chain EXCEPT !.toggles = 2]
         ELSE [toggles |-> 1, orig |-> Some(The(found).completed), fresh |-> FALSE]

GetChain(task_id) ==
    [NoChain EXCEPT !.fresh = IF op.name = "create_task" THEN result.id = task_id ELSE FALSE]

(* A caller's session in SpecConc.  pc: "idle" before the call, "loaded"    *)
(* after session.get and the assignments, "committed" after                *)
(* session.commit, "done" after the return.  loaded: the row as            *)
(* session.get read it; task: the object after the assignments; ret: the   *)
(* returned value.  History: order is the position of this call's commit   *)
(* among the commits, stale says that the other caller committed between   *)
(* this call's session.get and its session.commit.                         *)
NoSession == [pc |-> "idle", name |-> "none", id |-> 0, title |-> None,
              completed |-> None, loaded |-> None, task |-> None, ret |-> None,
              order |-> 0, stale |-> FALSE]

Init ==
    /\ tasks = {}
    /\ id_seq = 0
    /\ clock = 0
    /\ op = Call("none", 0, None, None)
    /\ pre = None
    /\ result = None
    /\ chain = NoChain
    /\ created = <<>>
    /\ deleted = {}
    /\ sess = [c \in Callers |-> NoSession]

----------------------------------------------------------------------------
(* The service calls, each one atomic *)

create_task ==
    \E title \in Titles, now \in {clock, clock + 1} :
        /\ TaskCreate(title)
        /\ id_seq < MaxCreates
        /\ LET task == Task(next_id(id_seq), title, now)
           IN  /\ tasks' = tasks \cup {task}
               /\ id_seq' = task.id
               /\ result' = session_refresh(tasks', task)
               /\ created' = Append(created, task.id)
               /\ deleted' = deleted \ {task.id}
        /\ clock' = now
        /\ op' = Call("create_task", 0, Some(title), None)
        /\ pre' = None
        /\ chain' = NoChain
        /\ UNCHANGED sess

get_all_tasks ==
    /\ result' \in select_order_by_desc_created_at(tasks)
    /\ op' = Call("get_all_tasks", 0, None, None)
    /\ pre' = None
    /\ chain' = NoChain
    /\ UNCHANGED <<tasks, id_seq, clock, created, deleted, sess>>

get_task_by_id ==
    \E task_id \in Ids :
        /\ result' = session_get(tasks, task_id)
        /\ op' = Call("get_task_by_id", task_id, None, None)
        /\ pre' = session_get(tasks, task_id)
        /\ chain' = GetChain(task_id)
        /\ UNCHANGED <<tasks, id_seq, clock, created, deleted, sess>>

update_task ==
    \E task_id \in Ids, title \in TitlePatches, completed \in CompletedPatches :
        /\ TaskUpdate(title, completed)
        /\ LET task_update == [title |-> title, completed |-> completed]
               found == session_get(tasks, task_id)
           IN  /\ pre' = found
               /\ IF found = None
                  THEN /\ result' = None
                       /\ tasks' = tasks
                  ELSE LET task == apply_update(The(found), task_update)
                       IN  /\ tasks' = session_commit(tasks, The(found), task)
                           /\ result' = Some(session_refresh(tasks', task))
        /\ op' = Call("update_task", task_id, title, completed)
        /\ chain' = NoChain
        /\ UNCHANGED <<id_seq, clock, created, deleted, sess>>

toggle_task_completion ==
    \E task_id \in Ids :
        /\ LET found == session_get(tasks, task_id)
           IN  /\ pre' = found
               /\ IF found = None
                  THEN /\ result' = None
                       /\ tasks' = tasks
                  ELSE LET task == apply_toggle(The(found))
                       IN  /\ tasks' = session_commit(tasks, The(found), task)
                           /\ result' = Some(session_refresh(tasks', task))
        /\ op' = Call("toggle_task_completion", task_id, None, None)
        /\ chain' = ToggleChain(task_id, session_get(tasks, task_id))
        /\ UNCHANGED <<id_seq, clock, created, deleted, sess>>

(* Variant: the row is marked for deletion and the commit is missing. *)
delete_task_without_commit ==
    \E task_id \in Ids :
        /\ LET found == session_get(tasks, task_id)
           IN  /\ pre' = found
               /\ IF found = None
                  THEN /\ result' = FALSE
                       /\ UNCHANGED <<tasks, deleted>>
                  ELSE /\ tasks' = tasks
                       /\ deleted' = deleted \cup {task_id}
                       /\ result' = TRUE
        /\ op' = Call("delete_task", task_id, None, None)
        /\ chain' = NoChain
        /\ UNCHANGED <<id_seq, clock, created, sess>>

(* Variant: True is returned whether or not the row was found. *)
delete_task_always_true ==
    \E task_id \in Ids :
        /\ LET found == session_get(tasks, task_id)
           IN  /\ pre' = found
               /\ IF found = None
                  THEN /\ result' = TRUE
                       /\ UNCHANGED <<tasks, deleted>>
                  ELSE /\ tasks' = tasks \ {The(found)}
                       /\ deleted' = deleted \cup {task_id}
                       /\ result' = TRUE
        /\ op' = Call("delete_task", task_id, None, None)
        /\ chain' = NoChain
        /\ UNCHANGED <<id_seq, clock, created, sess>>

delete_task ==
    \E task_id \in Ids :
        /\ LET found == session_get(tasks, task_id)
           IN  /\ pre' = found
               /\ IF found = None
                  THEN /\ result' = FALSE
                       /\ UNCHANGED <<tasks, deleted>>
                  ELSE /\ tasks' = tasks \ {The(found)}
                       /\ deleted' = deleted \cup {task_id}
                       /\ result' = TRUE
        /\ op' = Call("delete_task", task_id, None, None)
        /\ chain' = NoChain
        /\ UNCHANGED <<id_seq, clock, created, sess>>

get_task_statistics ==
    /\ result' = statistics(tasks)
    /\ op' = Call("get_task_statistics", 0, None, None)
    /\ pre' = None
    /\ chain' = NoChain
    /\ UNCHANGED <<tasks, id_seq, clock, created, deleted, sess>>

Next ==
    \/ create_task
    \/ get_all_tasks
    \/ get_task_by_id
    \/ update_task
    \/ toggle_task_completion
    \/ delete_task
    \/ get_task_statistics

Spec == Init /\ [][Next]_vars

----------------------------------------------------------------------------
(* Two callers, one update_task or toggle_task_completion call each, every *)
(* call in a session of its own.  A call takes three steps: session.get    *)
(* with the assignments to the loaded object, session.commit, and          *)
(* session.refresh with the return; the other caller and create_task may   *)
(* act between them.                                                       *)

Other(c) == CHOOSE d \in Callers : d # c

(* update_task up to the assignments *)
begin_update_task(c) ==
    \E task_id \in Ids, title \in TitlePatches, completed \in CompletedPatches :
        /\ sess[c].pc = "idle"
        /\ TaskUpdate(title, completed)
        /\ LET task_update == [title |-> title, completed |-> completed]
               found == session_get(tasks, task_id)
               call == [NoSession EXCEPT !.name = "update_task", !.id = task_id,
                                         !.title = title, !.completed = completed]
           IN  sess' = [sess EXCEPT ![c] =
                   IF found = None
                   THEN [call EXCEPT !.pc = "done"]
                   ELSE [call EXCEPT !.pc = "loaded", !.loaded = found,
                                     !.task = Some(apply_update(The(found), task_update))]]
        /\ UNCHANGED <<tasks, id_seq, clock, op, pre, result, chain, created, deleted>>

(* toggle_task_completion up to the assignment *)
begin_toggle_task_completion(c) ==
    \E task_id \in Ids :
        /\ sess[c].pc = "idle"
        /\ LET found == session_get(tasks, task_id)
               call == [NoSession EXCEPT !.name = "toggle_task_completion", !.id = task_id]
           IN  sess' = [sess EXCEPT ![c] =
                   IF found = None
                   THEN [call EXCEPT !.pc = "done"]
                   ELSE [call EXCEPT !.pc = "loaded", !.loaded = found,
                                     !.task = Some(apply_toggle(The(found)))]]
        /\ UNCHANGED <<tasks, id_seq, clock, op, pre, result, chain, created, deleted>>

(* session.add(task); session.commit() *)
commit(c) ==
    /\ sess[c].pc = "loaded"
    /\ tasks' = session_commit(tasks, The(sess[c].loaded), The(sess[c].task))
    /\ sess' = [d \in Callers |->
                   IF d = c
                   THEN [sess[c] EXCEPT !.pc = "committed",
                            !.order = 1 + Cardinality({e \in Callers : sess[e].order > 0})]
                   ELSE [sess[d] EXCEPT !.stale = @ \/ sess[d].pc = "loaded"]]
    /\ UNCHANGED <<id_seq, clock, op, pre, result, chain, created, deleted>>

(* session.refresh(task); return task *)
refresh_and_return(c) ==
    /\ sess[c].pc = "committed"
    /\ sess' = [sess EXCEPT ![c].pc = "done",
                            ![c].ret = Some(session_refresh(tasks, The(sess[c].task)))]
    /\ UNCHANGED <<tasks, id_seq, clock, op, pre, result, chain, created, deleted>>

NextConc ==
    \/ create_task
    \/ \E c \in Callers : begin_update_task(c)
    \/ \E c \in Callers : begin_toggle_task_completion(c)
    \/ \E c \in Callers : commit(c)
    \/ \E c \in Callers : refresh_and_return(c)

SpecConc == Init /\ [][NextConc]_vars

----------------------------------------------------------------------------
(* Properties of the single-caller service (Spec) *)

Found(task_id) == \E t \in tasks : t.id = task_id

(* C1: update_task on an existing row stores and returns the row whose     *)
(* title is the patch's title when one is provided (the empty title        *)
(* included) and the stored title otherwise, and whose completed is the    *)
(* patch's completed when one is provided (False included) and the stored  *)
(* one otherwise; with neither provided the row is the one found.          *)
C1_UpdateMergesProvidedFields ==
    (op.name = "update_task" /\ pre # None) =>
        LET old == The(pre)
            merged == [id |-> old.id,
                       title |-> IF op.title = None THEN old.title ELSE The(op.title),
                       completed |-> IF op.completed = None THEN old.completed
                                     ELSE The(op.completed),
                       created_at |-> old.created_at]
        IN  /\ result = Some(merged)
            /\ merged \in tasks
            /\ (op.title = None /\ op.completed = None) => (result = pre /\ old \in tasks)

C1_Witness ==
    /\ op.name = "update_task" /\ pre # None
    /\ op.title = Some(<<>>) /\ The(pre).title = <<"a">>
    /\ op.completed = None /\ The(pre).completed = TRUE
    /\ The(result).title = <<>> /\ The(result).completed = TRUE

(* C2: get_all_tasks on an empty table returns the empty sequence, and     *)
(* after N creations with no deletion it returns the N rows with the most  *)
(* recently created one first and the earliest created one last.           *)
C2_ListIsNewestCreatedFirst ==
    op.name = "get_all_tasks" =>
        /\ tasks = {} => result = <<>>
        /\ deleted = {} =>
              /\ Len(result) = Len(created)
              /\ \A i \in 1 .. Len(result) : result[i].id = created[Len(created) + 1 - i]

(* C3: create_task returns a stored row with the given title, completed    *)
(* False, an id and a created_at; get_task_by_id for that id right after   *)
(* it returns a row with the same id and title and completed False.        *)
C3_Step ==
    /\ op'.name = "create_task" =>
          /\ result'.title = The(op'.title)
          /\ result'.completed = FALSE
          /\ result'.id \in 1 .. id_seq'
          /\ result'.created_at \in 0 .. clock'
          /\ result' \in tasks'
    /\ (op.name = "create_task" /\ op'.name = "get_task_by_id" /\ op'.id = result.id) =>
          /\ result' # None
          /\ The(result').id = result.id
          /\ The(result').title = The(op.title)
          /\ The(result').completed = FALSE

C4_StatisticsCountTheStore ==
    op.name = "get_task_statistics" =>
        /\ result.total = Cardinality(tasks)
        /\ result.completed = Cardinality({t \in tasks : t.completed})
        /\ result.pending = Cardinality({t \in tasks : ~ t.completed})
        /\ result.total = result.completed + result.pending
        /\ tasks = {} => result = [total |-> 0, completed |-> 0, pending |-> 0]

C4_Witness ==
    /\ op.name = "get_task_statistics"
    /\ result = [total |-> 2, completed |-> 1, pending |-> 1]

(* C5: delete_task of a stored id returns True and removes the row for     *)
(* good: until a create_task returns the id again, no deleted id is in the *)
(* table, get_task_by_id of a deleted id returns None, get_all_tasks lists *)
(* no deleted id and the statistics count only the created rows that were  *)
(* not deleted.                                                            *)
C5_DeleteIsPermanent ==
    /\ (op.name = "delete_task" /\ pre # None) => (result = TRUE /\ op.id \in deleted)
    /\ \A task_id \in deleted : ~ Found(task_id)
    /\ (op.name = "get_task_by_id" /\ op.id \in deleted) => result = None
    /\ op.name = "get_all_tasks" =>
          \A i \in 1 .. Len(result) : result[i].id \notin deleted
    /\ op.name = "get_task_statistics" =>
          result.total = Cardinality({created[i] : i \in 1 .. Len(created)} \ deleted)

C5_Witness ==
    /\ op.name = "get_task_by_id" /\ op.id \in deleted /\ result = None
    /\ tasks # {}

(* C6: get_task_by_id, update_task and toggle_task_completion of an id     *)
(* that matches no row return None and delete_task returns False, and the  *)
(* table is left as it was.                                                *)
C6_Step ==
    (/\ op'.name \in {"get_task_by_id", "update_task", "toggle_task_completion",
                      "delete_task"}
     /\ ~ Found(op'.id)) =>
        /\ tasks' = tasks
        /\ result' = IF op'.name = "delete_task" THEN FALSE ELSE None

C6_NotFoundIsAResult == [][C6_Step]_vars

C6_Witness ==
    /\ op.name = "update_task" /\ pre = None /\ result = None
    /\ op.title # None /\ op.completed # None
    /\ tasks # {} /\ op.id \in deleted

(* C7: toggle_task_completion returns and stores the negation of the       *)
(* stored completed, and two calls in a row on the same row return         *)
(* completed to the value it had before the first.                         *)
C7_ToggleIsAnInvolution ==
    /\ (op.name = "toggle_task_completion" /\ pre # None) =>
          /\ result # None
          /\ The(result).completed = ~ The(pre).completed
          /\ The(result) \in tasks
    /\ chain.toggles = 2 =>
          /\ The(result).completed = The(chain.orig)
          /\ \E t \in tasks : t.id = op.id /\ t.completed = The(chain.orig)

C7_Witness ==
    /\ chain.toggles = 2 /\ chain.orig = Some(TRUE)
    /\ op.name = "toggle_task_completion" /\ The(result).completed = TRUE

(* C8: no two stored rows share an id, and create_task never returns an id *)
(* it returned before, also when the row that had it was deleted.          *)
C8_IdsAreUniqueAndNeverReused ==
    /\ \A t, u \in tasks : t.id = u.id => t = u
    /\ \A i, j \in 1 .. Len(created) : i # j => created[i] # created[j]

C8_Witness ==
    /\ op.name = "create_task" /\ deleted # {}
    /\ \A task_id \in deleted : task_id < result.id

(* C9: while a row is stored its id and created_at do not change;          *)
(* update_task and toggle_task_completion return the row they found with   *)
(* the same id and created_at.                                             *)
C9_Step ==
    /\ \A t \in tasks : \A u \in tasks' : u.id = t.id => u.created_at = t.created_at
    /\ \A t \in tasks : op'.name \in {"update_task", "toggle_task_completion"} =>
           \E u \in tasks' : u.id = t.id
    /\ (op'.name \in {"update_task", "toggle_task_completion"} /\ pre' # None) =>
           /\ The(result').id = op'.id
           /\ The(result').id = The(pre').id
           /\ The(result').created_at = The(pre').created_at

C9_IdAndCreatedAtAreStable == [][C9_Step]_vars

C9_Witness ==
    /\ op.name = "update_task" /\ pre # None /\ op.title # None
    /\ The(pre).created_at < clock
    /\ The(result).created_at = The(pre).created_at

----------------------------------------------------------------------------
(* Properties of two overlapping calls (SpecConc) *)

(* the call of caller c assigns the column of the object it loaded *)
Assigns(c, column) ==
    \/ sess[c].name = "update_task" /\ sess[c][column] # None
    \/ sess[c].name = "toggle_task_completion" /\ column = "completed"

(* calls of c and d on one row, both read before either committed, and c   *)
(* committed first; both have returned                                     *)
Overlapped(c, d) ==
    /\ c # d
    /\ sess[c].pc = "done" /\ sess[d].pc = "done"
    /\ sess[c].loaded # None /\ sess[d].loaded # None
    /\ sess[c].id = sess[d].id
    /\ sess[c].order < sess[d].order
    /\ sess[d].stale

(* C10: when update or toggle calls of two callers on one stored row       *)
(* overlap, both return the row, and a column that both calls assign holds *)
(* in the end the value assigned by the call that committed last.          *)
C10_LastCommitWins ==
    \A c, d \in Callers : Overlapped(c, d) =>
        /\ sess[c].ret # None /\ sess[d].ret # None
        /\ \A column \in {"title", "completed"} :
              (Assigns(c, column) /\ Assigns(d, column)) =>
                  The(session_get(tasks, sess[d].id))[column] = The(sess[d].task)[column]

----------------------------------------------------------------------------
(* Further properties of the single-caller service (Spec) *)

(* the TaskUpdate that provides only completed *)
only_completed(completed) == [title |-> None, completed |-> Some(completed)]

(* C12: toggle_task_completion(id) returns what update_task(id, patch)     *)
(* returns and leaves the table that it leaves, where patch provides only  *)
(* completed, set to the negation of the stored completed (either value    *)
(* when no row has the id).                                                *)
C12_Step ==
    /\ op'.name = "update_task" =>
          LET outcome == update_outcome(tasks, op'.id,
                                        [title |-> op'.title, completed |-> op'.completed])
          IN  tasks' = outcome.tasks /\ result' = outcome.result
    /\ op'.name = "toggle_task_completion" =>
          \A completed \in BOOLEAN :
              (Found(op'.id) => completed = ~ The(session_get(tasks, op'.id)).completed) =>
                  LET outcome == update_outcome(tasks, op'.id, only_completed(completed))
                  IN  tasks' = outcome.tasks /\ result' = outcome.result

C12_ToggleIsUpdateOfNegation == [][C12_Step]_vars

C12_Witness ==
    /\ op.name = "toggle_task_completion" /\ pre # None
    /\ The(pre).completed = TRUE /\ The(pre).title = <<"a">>
    /\ result = update_outcome({The(pre)}, op.id, only_completed(FALSE)).result
    /\ Cardinality(tasks) = 2

(* C13: update_task, toggle_task_completion and delete_task leave every    *)
(* row with another id as it is and add none; create_task leaves the       *)
(* stored rows as they are and adds one row; get_all_tasks, get_task_by_id *)
(* and get_task_statistics leave the table as it is.                       *)
C13_Step ==
    /\ op'.name \in {"update_task", "toggle_task_completion", "delete_task"} =>
          /\ \A t \in tasks : t.id # op'.id => t \in tasks'
          /\ \A u \in tasks' : u.id # op'.id => u \in tasks
          /\ Cardinality(tasks') <= Cardinality(tasks)
    /\ op'.name = "create_task" =>
          /\ tasks \subseteq tasks'
          /\ tasks' = create_outcome(tasks, id_seq, The(op'.title), clock').tasks
          /\ tasks' \ tasks = {result'}
    /\ op'.name \in {"get_all_tasks", "get_task_by_id", "get_task_statistics"} =>
          tasks' = tasks

C13_OnlyTheTargetChanges == [][C13_Step]_vars

C13_Witness ==
    /\ op.name = "update_task" /\ pre # None
    /\ The(result).title # The(pre).title /\ The(result).completed # The(pre).completed
    /\ \E t \in tasks : t.id # op.id /\ t.title = The(pre).title
                                     /\ t.completed = The(pre).completed

----------------------------------------------------------------------------
(* A caller that builds the schema object and then calls the service       *)
(* (SpecSchema).  Building TaskCreate or TaskUpdate raises a validation    *)
(* error when the title is longer than max_length, and the service is not  *)
(* called then.                                                            *)

(* "x" * n *)
repeat(c, n) == [i \in 1 .. n |-> c]

(* Titles this caller tries: the empty one, one of exactly max_length      *)
(* characters and one of max_length + 1.                                   *)
AttemptTitles == {<<>>, repeat("x", max_length), repeat("x", max_length + 1)}
AttemptPatches == {None} \cup {Some(t) : t \in AttemptTitles}

ValidationError == [error |-> "ValidationError"]

(* the schema constructor raises: nothing is called, nothing is written *)
raise_validation_error(schema, title, completed) ==
    /\ op' = Call(schema, 0, title, completed)
    /\ result' = ValidationError
    /\ pre' = None
    /\ chain' = NoChain
    /\ UNCHANGED <<tasks, id_seq, clock, created, deleted, sess>>

(* TaskService.create_task(TaskCreate(title=title)) *)
call_create_task ==
    \E title \in AttemptTitles, now \in {clock, clock + 1} :
        IF TaskCreate(title)
        THEN /\ id_seq < MaxCreates
             /\ LET outcome == create_outcome(tasks, id_seq, title, now)
                IN  /\ tasks' = outcome.tasks
                    /\ id_seq' = outcome.id_seq
                    /\ result' = outcome.result
                    /\ created' = Append(created, outcome.id_seq)
                    /\ deleted' = deleted \ {outcome.id_seq}
             /\ clock' = now
             /\ op' = Call("create_task", 0, Some(title), None)
             /\ pre' = None
             /\ chain' = NoChain
             /\ UNCHANGED sess
        ELSE raise_validation_error("TaskCreate", Some(title), None)

(* TaskService.update_task(task_id, TaskUpdate(title=title, completed=completed)) *)
call_update_task ==
    \E task_id \in Ids, title \in AttemptPatches, completed \in CompletedPatches :
        IF TaskUpdate(title, completed)
        THEN /\ LET outcome == update_outcome(tasks, task_id,
                                              [title |-> title, completed |-> completed])
                IN  /\ tasks' = outcome.tasks
                    /\ result' = outcome.result
             /\ pre' = session_get(tasks, task_id)
             /\ op' = Call("update_task", task_id, title, completed)
             /\ chain' = NoChain
             /\ UNCHANGED <<id_seq, clock, created, deleted, sess>>
        ELSE raise_validation_error("TaskUpdate", title, completed)

(* The calls that write; the three read calls leave the table as it is.    *)
NextSchema ==
    \/ call_create_task
    \/ call_update_task
    \/ toggle_task_completion
    \/ delete_task

SpecSchema == Init /\ [][NextSchema]_vars

(* C11: every stored title has at most max_length characters; building a   *)
(* TaskCreate or TaskUpdate with a longer title raises the validation      *)
(* error before the service is called and the table stays as it is; the    *)
(* empty title is not a validation error and is stored as given.           *)
C11_Step ==
    /\ \A t \in tasks' : Len(t.title) <= max_length
    /\ IF op'.title # None /\ op'.name \in {"TaskCreate", "TaskUpdate", "create_task",
                                             "update_task"}
       THEN IF Len(The(op'.title)) > max_length
            THEN /\ op'.name \in {"TaskCreate", "TaskUpdate"}
                 /\ result' = ValidationError
                 /\ tasks' = tasks
            ELSE /\ op'.name \in {"create_task", "update_task"}
                 /\ op'.name = "create_task" => result'.title = The(op'.title)
                 /\ (op'.name = "update_task" /\ pre' # None) =>
                        The(result').title = The(op'.title)
       ELSE op'.name \notin {"TaskCreate", "TaskUpdate"}

----------------------------------------------------------------------------
(* The page of app/todo_app.py (SpecUI): the handlers behind the Add Task  *)
(* button, the checkbox, the edit dialog and the delete dialog.  A handler *)
(* is one step: a dialog it opens is answered before another handler runs. *)
(* op records the handler, the id it was made for and the text of the      *)
(* input field; result records the notification shown, how the dialog was  *)
(* closed, the writing service call that was made and the title passed to  *)
(* it.                                                                     *)

whitespace == {" ", "\t"}

RECURSIVE lstrip(_)
lstrip(text) ==
    IF text # <<>> /\ Head(text) \in whitespace THEN lstrip(Tail(text)) ELSE text

RECURSIVE rstrip(_)
rstrip(text) ==
    IF text # <<>> /\ text[Len(text)] \in whitespace
    THEN rstrip(SubSeq(text, 1, Len(text) - 1))
    ELSE text

(* Variant: only leading whitespace is removed. *)
strip_leading_only(text) == lstrip(text)

(* str.strip() *)
strip(text) == rstrip(lstrip(text))

(* "not title or not title.strip()" for the value of an input field *)
is_blank(value) ==
    IF value = None THEN TRUE
    ELSE IF The(value) = <<>> THEN TRUE
    ELSE strip(The(value)) = <<>>

(* Values of an input field: unset, empty, whitespace only, a plain title, *)
(* a title with whitespace around and inside it, and one that is too long  *)
(* after stripping.                                                        *)
InputValues ==
    {None, Some(<<>>), Some(<<" ">>), Some(<<"\t", " ">>), Some(<<"a">>),
     Some(<<" ", "a", " ", "b", "\t">>),
     Some(<<" ">> \o repeat("x", max_length + 1))}

Shown(notify, dialog, service, title) ==
    [notify |-> notify, dialog |-> dialog, service |-> service, title |-> title]

(* the handler returns without a writing service call *)
handler_returns(name, task_id, value, found, shown) ==
    /\ op' = Call(name, task_id, value, None)
    /\ pre' = found
    /\ result' = shown
    /\ chain' = NoChain
    /\ UNCHANGED <<tasks, id_seq, clock, created, deleted, sess>>

add_task ==
    \E value \in InputValues, now \in {clock, clock + 1} :
        IF is_blank(value)
        THEN handler_returns("add_task", 0, value, None,
                             Shown("warning", "none", "none", None))
        ELSE LET title == strip(The(value))
             IN  IF ~ TaskCreate(title)
                 THEN handler_returns("add_task", 0, value, None,
                                      Shown("negative", "none", "none", None))
                 ELSE /\ id_seq < MaxCreates
                      /\ LET outcome == create_outcome(tasks, id_seq, title, now)
                         IN  /\ tasks' = outcome.tasks
                             /\ id_seq' = outcome.id_seq
                             /\ created' = Append(created, outcome.id_seq)
                             /\ deleted' = deleted \ {outcome.id_seq}
                      /\ clock' = now
                      /\ op' = Call("add_task", 0, value, None)
                      /\ pre' = None
                      /\ result' = Shown("positive", "none", "create_task", Some(title))
                      /\ chain' = NoChain
                      /\ UNCHANGED sess

(* the handler of a task's checkbox *)
toggle_handler ==
    \E task_id \in Ids :
        LET found == session_get(tasks, task_id)
        IN  IF found = None
            THEN handler_returns("toggle_task_completion", task_id, None, None,
                                 Shown("warning", "none", "none", None))
            ELSE /\ tasks' = session_commit(tasks, The(found), apply_toggle(The(found)))
                 /\ op' = Call("toggle_task_completion", task_id, None, None)
                 /\ pre' = found
                 /\ result' = Shown("positive", "none", "toggle_task_completion", None)
                 /\ chain' = NoChain
                 /\ UNCHANGED <<id_seq, clock, created, deleted, sess>>

edit_task_dialog ==
    \E task_id \in Ids, submit \in {"cancel", "save"}, value \in InputValues,
       checkbox \in BOOLEAN :
        LET found == session_get(tasks, task_id)
        IN  IF found = None
            THEN handler_returns("edit_task_dialog", task_id, None, None,
                                 Shown("warning", "none", "none", None))
            ELSE IF submit = "cancel"
            THEN handler_returns("edit_task_dialog", task_id, None, found,
                                 Shown("none", "cancel", "none", None))
            ELSE IF is_blank(value)
            THEN handler_returns("edit_task_dialog", task_id, value, found,
                                 Shown("warning", "save", "none", None))
            ELSE LET title == strip(The(value))
                 IN  IF ~ TaskUpdate(Some(title), Some(checkbox))
                     THEN handler_returns("edit_task_dialog", task_id, value, found,
                                          Shown("negative", "save", "none", None))
                     ELSE /\ tasks' = update_outcome(tasks, task_id,
                                         [title |-> Some(title),
                                          completed |-> Some(checkbox)]).tasks
                          /\ op' = Call("edit_task_dialog", task_id, value, Some(checkbox))
                          /\ pre' = found
                          /\ result' = Shown("positive", "save", "update_task", Some(title))
                          /\ chain' = NoChain
                          /\ UNCHANGED <<id_seq, clock, created, deleted, sess>>

confirm_delete_task ==
    \E task_id \in Ids, submit \in {"cancel", "delete"} :
        LET found == session_get(tasks, task_id)
        IN  IF found = None
            THEN handler_returns("confirm_delete_task", task_id, None, None,
                                 Shown("warning", "none", "none", None))
            ELSE IF submit = "cancel"
            THEN handler_returns("confirm_delete_task", task_id, None, found,
                                 Shown("none", "cancel", "none", None))
            ELSE /\ tasks' = tasks \ {The(found)}
                 /\ deleted' = deleted \cup {task_id}
                 /\ op' = Call("confirm_delete_task", task_id, None, None)
                 /\ pre' = found
                 /\ result' = Shown("positive", "delete", "delete_task", None)
                 /\ chain' = NoChain
                 /\ UNCHANGED <<id_seq, clock, created, sess>>

NextUI ==
    \/ add_task
    \/ toggle_handler
    \/ edit_task_dialog
    \/ confirm_delete_task

SpecUI == Init /\ [][NextUI]_vars

(* the text has no character or whitespace only *)
OnlyWhitespace(text) == \A i \in 1 .. Len(text) : text[i] \in whitespace

(* title is text without the whitespace at its two ends *)
IsStripped(title, text) ==
    \E i, j \in 1 .. Len(text) :
        /\ title = SubSeq(text, i, j)
        /\ \A k \in 1 .. Len(text) : (k < i \/ k > j) => text[k] \in whitespace
        /\ text[i] \notin whitespace /\ text[j] \notin whitespace

(* C14: when the add-task handler or the save of the edit dialog runs with *)
(* a text that is unset, empty or whitespace only, a warning is shown, no  *)
(* create_task or update_task call is made and the table stays as it is;   *)
(* a title passed to create_task or update_task is the text without its    *)
(* surrounding whitespace, is not empty, and is the title stored.          *)
C14_Step ==
    (op'.name = "add_task" \/ (op'.name = "edit_task_dialog" /\ result'.dialog = "save")) =>
        IF (IF op'.title = None THEN TRUE ELSE OnlyWhitespace(The(op'.title)))
        THEN /\ result'.notify = "warning"
             /\ result'.service = "none"
             /\ tasks' = tasks
        ELSE IF result'.service = "none"
        THEN tasks' = tasks /\ result'.notify = "negative"
        ELSE /\ result'.service =
                    (IF op'.name = "add_task" THEN "create_task" ELSE "update_task")
             /\ result'.title # None
             /\ The(result'.title) # <<>>
             /\ IsStripped(The(result'.title), The(op'.title))
             /\ IF op'.name = "add_task"
                THEN \E t \in tasks' \ tasks : t.title = The(result'.title)
                ELSE \E t \in tasks' : t.id = op'.id /\ t.title = The(result'.title)

C14_BlankTitlesStopAtTheHandler == [][C14_Step]_vars

C14_Witness ==
    /\ op.name = "edit_task_dialog" /\ result.dialog = "save"
    /\ op.title = Some(<<"\t", " ">>) /\ result.notify = "warning"
    /\ \E t \in tasks : t.title = <<"a", " ", "b">>

====
